---- MODULE Spec2Model ----
(***************************************************************************)
(* interval_detector (src/src/main.rs): the Speed type and its ordering,   *)
(* find_interval, find_all_intervals, and main's argument check, input     *)
(* conversion, duration filter and output.                                 *)
(*                                                                         *)
(* f64 is modelled as a binary floating-point format with round-to-        *)
(* nearest, ties-to-even, of MantBits significant bits instead of 53.  A   *)
(* float is the natural number n standing for the value n / Scale.         *)
(* Speeds and limits are non-negative and finite, paces positive; the      *)
(* distance column is read by no property below and is left out.           *)
(* Time stamps of the input strictly increase (spec.md, section 3).        *)
(***************************************************************************)
EXTENDS Integers, Sequences, FiniteSets

VARIABLES
    pc,                     \* position in main, or in the test harness
    limit_kmph,             \* Opt.limit_kmph: Option<f64>
    limit_pace,             \* Opt.limit_pace: Option<f64>
    min_interval_duration,  \* Opt.min_interval_duration
    input,                  \* the rows of the CSV file at Opt.input
    records,                \* Vec<Record>
    limit,                  \* the Speed the scan compares against
    start_index,            \* find_all_intervals' start_index
    results,                \* find_all_intervals' results
    found,                  \* the value the last find_interval call returned
    calls,                  \* the start_index argument of every find_interval call so far
    intervals,              \* main's Vec<IntervalInfo>
    stdout,                 \* the lines written to standard output
    rhs,                    \* the right operand of a Speed comparison
    ordering                \* the Option<Ordering> it returned

vars == <<pc, limit_kmph, limit_pace, min_interval_duration, input, records, limit,
          start_index, results, found, calls, intervals, stdout, rhs, ordering>>

-----------------------------------------------------------------------------
(* Bounds. *)

MantBits == 7
MaxLen == 5

-----------------------------------------------------------------------------
(* Option<T>. *)

None == <<>>
Some(x) == <<x>>

-----------------------------------------------------------------------------
(* f64. *)

Scale == 2 ^ MantBits

RECURSIVE UlpOf(_, _)
UlpOf(q, u) == IF q < (2 ^ MantBits) * u THEN u ELSE UlpOf(q, 2 * u)

\* The float nearest to the exact quotient a / b (in units of 1 / Scale).
Round(a, b) ==
    LET ulp == UlpOf(a \div b, 1)
        k   == a \div (b * ulp)
        rem == a - k * b * ulp
    IN  IF 2 * rem < b * ulp THEN k * ulp
        ELSE IF 2 * rem > b * ulp THEN (k + 1) * ulp
        ELSE IF k % 2 = 0 THEN k * ulp
        ELSE (k + 1) * ulp

\* A decimal text or literal num / den read as f64.
ParseDec(t) == Round(t[1] * Scale, t[2])

\* usize as f64.
FromInt(n) == Round(n * Scale, 1)

FAdd(x, y) == Round(x + y, 1)

FDiv(x, y) == Round(x * Scale, y)

-----------------------------------------------------------------------------
(* Speed. *)

Kmph(v) == [unit |-> "Kmph", v |-> v]
Ms(v) == [unit |-> "Ms", v |-> v]
SecPer500m(v) == [unit |-> "SecPer500m", v |-> v]

Unset == [unit |-> "unset", v |-> 0]

\* A faulty to_ms: the pace divided by 500.
to_ms_swapped(self) ==
    CASE self.unit = "Kmph" -> FDiv(self.v, ParseDec(<<36, 10>>))
      [] self.unit = "Ms" -> self.v
      [] self.unit = "SecPer500m" -> FDiv(self.v, ParseDec(<<500, 1>>))

to_ms(self) ==
    CASE self.unit = "Kmph" -> FDiv(self.v, ParseDec(<<36, 10>>))
      [] self.unit = "Ms" -> self.v
      [] self.unit = "SecPer500m" -> FDiv(ParseDec(<<500, 1>>), self.v)

partial_cmp(self, other) ==
    IF to_ms(self) < to_ms(other) THEN Some("Less")
    ELSE IF to_ms(self) = to_ms(other) THEN Some("Equal")
    ELSE Some("Greater")

\* PartialOrd's provided >= and <.
ge(self, other) == partial_cmp(self, other) \in {Some("Greater"), Some("Equal")}
lt(self, other) == partial_cmp(self, other) = Some("Less")

-----------------------------------------------------------------------------
(* Record, with 0-based indexing. *)

Record(time, speed) == [time_in_seconds |-> time, speed |-> speed]

At(s, idx) == s[idx + 1]

Range(start, end) == [start |-> start, end |-> end]

-----------------------------------------------------------------------------
(* find_interval. *)

\* records.iter().enumerate().skip(idx).find_map(..): the first index at or
\* after idx whose speed is >= limit.
\* A faulty find_map: > for >=.
RECURSIVE find_map_gt(_, _, _)
find_map_gt(recs, idx, lim) ==
    IF idx >= Len(recs) THEN None
    ELSE IF partial_cmp(At(recs, idx).speed, lim) = Some("Greater") THEN Some(idx)
    ELSE find_map_gt(recs, idx + 1, lim)

RECURSIVE find_map(_, _, _)
find_map(recs, idx, lim) ==
    IF idx >= Len(recs) THEN None
    ELSE IF ge(At(recs, idx).speed, lim) THEN Some(idx)
    ELSE find_map(recs, idx + 1, lim)

\* A faulty loop: the range includes the sample that ended it.
RECURSIVE average_loop_end_included(_, _, _, _, _)
average_loop_end_included(recs, first, idx, total_speed, lim) ==
    IF idx >= Len(recs) THEN None
    ELSE LET total == FAdd(total_speed, to_ms(At(recs, idx).speed))
             average_speed_ms == FDiv(total, FromInt(idx - first + 1))
         IN  IF lt(Ms(average_speed_ms), lim) THEN Some(Range(first, idx + 1))
             ELSE average_loop_end_included(recs, first, idx + 1, total, lim)

\* A faulty loop: a trailing candidate is cut at the end of the samples.
RECURSIVE average_loop_truncating(_, _, _, _, _)
average_loop_truncating(recs, first, idx, total_speed, lim) ==
    IF idx >= Len(recs) THEN Some(Range(first, Len(recs)))
    ELSE LET total == FAdd(total_speed, to_ms(At(recs, idx).speed))
             average_speed_ms == FDiv(total, FromInt(idx - first + 1))
         IN  IF lt(Ms(average_speed_ms), lim) THEN Some(Range(first, idx))
             ELSE average_loop_truncating(recs, first, idx + 1, total, lim)

\* A faulty loop: <= for <.
RECURSIVE average_loop_le(_, _, _, _, _)
average_loop_le(recs, first, idx, total_speed, lim) ==
    IF idx >= Len(recs) THEN None
    ELSE LET total == FAdd(total_speed, to_ms(At(recs, idx).speed))
             average_speed_ms == FDiv(total, FromInt(idx - first + 1))
         IN  IF partial_cmp(Ms(average_speed_ms), lim) \in {Some("Less"), Some("Equal")}
             THEN Some(Range(first, idx))
             ELSE average_loop_le(recs, first, idx + 1, total, lim)

\* The for loop from idx on, total_speed being the sum so far.
RECURSIVE average_loop(_, _, _, _, _)
average_loop(recs, first, idx, total_speed, lim) ==
    IF idx >= Len(recs) THEN None
    ELSE LET total == FAdd(total_speed, to_ms(At(recs, idx).speed))
             average_speed_ms == FDiv(total, FromInt(idx - first + 1))
         IN  IF lt(Ms(average_speed_ms), lim) THEN Some(Range(first, idx))
             ELSE average_loop(recs, first, idx + 1, total, lim)

\* A faulty find_interval: skip(start_index + 1).
find_interval_skip_one(recs, start, lim) ==
    LET crossing == find_map(recs, start + 1, lim)
    IN  IF crossing = None THEN None
        ELSE average_loop(recs, crossing[1], crossing[1], 0, lim)

find_interval(recs, start, lim) ==
    LET crossing == find_map(recs, start, lim)
    IN  IF crossing = None THEN None
        ELSE average_loop(recs, crossing[1], crossing[1], 0, lim)

-----------------------------------------------------------------------------
(* main's filter and map over the ranges. *)

duration_of(recs, range) ==
    At(recs, range.end - 1).time_in_seconds - At(recs, range.start).time_in_seconds

IntervalInfo(recs, range) ==
    [start_time |-> At(recs, range.start).time_in_seconds,
     duration   |-> duration_of(recs, range)]

\* An index out of bounds or a usize subtraction below zero.
panics(recs, ranges) ==
    \E k \in 1..Len(ranges) :
        \/ ranges[k].end = 0
        \/ ranges[k].end - 1 >= Len(recs)
        \/ ranges[k].start >= Len(recs)
        \/ At(recs, ranges[k].end - 1).time_in_seconds
               < At(recs, ranges[k].start).time_in_seconds

\* A faulty filter: > for >=.
RECURSIVE filter_map_strict(_, _, _)
filter_map_strict(recs, ranges, min_duration) ==
    IF ranges = <<>> THEN <<>>
    ELSE LET rest == filter_map_strict(recs, Tail(ranges), min_duration)
         IN  IF duration_of(recs, Head(ranges)) > min_duration
             THEN <<IntervalInfo(recs, Head(ranges))>> \o rest
             ELSE rest

RECURSIVE filter_map(_, _, _)
filter_map(recs, ranges, min_duration) ==
    IF ranges = <<>> THEN <<>>
    ELSE LET rest == filter_map(recs, Tail(ranges), min_duration)
         IN  IF duration_of(recs, Head(ranges)) >= min_duration
             THEN <<IntervalInfo(recs, Head(ranges))>> \o rest
             ELSE rest

-----------------------------------------------------------------------------
(* The inputs. *)

SpeedTexts == {<<0, 1>>, <<47, 8>>, <<73, 10>>}
KmphTexts == {<<216, 10>>}
PaceTexts == {<<85, 1>>, <<97, 1>>}
DurationArgs == {1, 2}

\* Two strictly increasing time columns: one sample a second, and irregular.
TimeAt(track, k) == IF track = 0 THEN k - 1 ELSE 10 + 2 * (k - 1) + ((k - 1) \div 2)

SpeedColumns == UNION {[1..n -> SpeedTexts] : n \in 0..MaxLen}

Row(time, activity_type, speed) ==
    [time |-> time, activityType |-> activity_type, speed |-> speed]

Rows(track, column) == [k \in 1..Len(column) |-> Row(TimeAt(track, k), 0, column[k])]

\* The trailing row some exports end with.
Sentinel(track, n) == Row(TimeAt(track, n + 1), -1, <<0, 1>>)

Files ==
    {Rows(track, column) : track \in {0, 1}, column \in SpeedColumns}
    \cup {Append(Rows(track, column), Sentinel(track, Len(column))) :
              track \in {0, 1}, column \in SpeedColumns}

\* What the scan reads from a column of speeds sampled once a second.
RecordsOf(column) ==
    [k \in 1..Len(column) |-> Record(TimeAt(0, k), Ms(ParseDec(column[k])))]

\* The records of test_find_interval.
TestRecords == RecordsOf(<<<<10, 10>>, <<20, 10>>, <<18, 10>>, <<22, 10>>, <<0, 10>>>>)

FindLimits ==
    {Ms(ParseDec(<<47, 8>>)), Ms(ParseDec(<<6, 1>>)), Kmph(ParseDec(<<216, 10>>)),
     SecPer500m(ParseDec(<<85, 1>>)), SecPer500m(ParseDec(<<97, 1>>))}

TestLimits == {Ms(ParseDec(<<19, 10>>)), Ms(ParseDec(<<21, 10>>))}

CmpSpeeds ==
    {Kmph(ParseDec(t)) : t \in {<<216, 10>>, <<18, 1>>, <<9, 1>>}}
    \cup {Ms(ParseDec(t)) : t \in {<<47, 8>>, <<5, 1>>, <<6, 1>>}}
    \cup {SecPer500m(ParseDec(t)) : t \in {<<85, 1>>, <<97, 1>>, <<98, 1>>, <<100, 1>>}}

-----------------------------------------------------------------------------
(* The state machine. *)

ErrorLine == [line |-> "error: must specify either --limit-kmph or --limit-pace"]
HeaderLine == [line |-> "start_time,duration,distance"]

\* main, after Opt::from_args().
InitMain ==
    /\ pc = "main"
    /\ limit_kmph \in {None} \cup {Some(ParseDec(t)) : t \in KmphTexts}
    /\ limit_pace \in {None} \cup {Some(ParseDec(t)) : t \in PaceTexts}
    /\ min_interval_duration \in DurationArgs
    /\ input \in Files
    /\ records = <<>>
    /\ limit = Unset
    /\ start_index = 0
    /\ results = <<>>
    /\ found = None
    /\ calls = <<>>
    /\ intervals = <<>>
    /\ stdout = <<>>
    /\ rhs = Unset
    /\ ordering = None

\* A direct call of find_interval, as test_find_interval makes.
InitFind ==
    /\ pc = "test_find_interval"
    /\ \/ /\ records \in {RecordsOf(column) : column \in SpeedColumns}
          /\ limit \in FindLimits
          /\ start_index \in 0..(MaxLen + 1)
       \/ /\ records = TestRecords
          /\ limit \in TestLimits
          /\ start_index \in 0..Len(TestRecords)
    /\ limit_kmph = None
    /\ limit_pace = None
    /\ min_interval_duration = 0
    /\ input = <<>>
    /\ results = <<>>
    /\ found = None
    /\ calls = <<>>
    /\ intervals = <<>>
    /\ stdout = <<>>
    /\ rhs = Unset
    /\ ordering = None

\* A direct comparison of two Speed values.
InitCmp ==
    /\ pc = "test_partial_cmp"
    /\ limit \in CmpSpeeds
    /\ rhs \in CmpSpeeds
    /\ limit_kmph = None
    /\ limit_pace = None
    /\ min_interval_duration = 0
    /\ input = <<>>
    /\ records = <<>>
    /\ start_index = 0
    /\ results = <<>>
    /\ found = None
    /\ calls = <<>>
    /\ intervals = <<>>
    /\ stdout = <<>>
    /\ ordering = None

Init == InitMain \/ InitFind \/ InitCmp

Xor(a, b) == (a /\ ~b) \/ (~a /\ b)

\* A faulty check: only the absence of both thresholds is an error.
limit_ambiguous_neither_only(kmph, pace) == ~(kmph # None \/ pace # None)

\* !(args.limit_kmph.is_some() ^ args.limit_pace.is_some())
limit_ambiguous(kmph, pace) == ~Xor(kmph # None, pace # None)

\* main: the choice of the limit.
ChooseLimit ==
    /\ pc = "main"
    /\ \/ /\ limit_ambiguous(limit_kmph, limit_pace)
          /\ stdout' = Append(stdout, ErrorLine)
          /\ pc' = "exit"
          /\ UNCHANGED limit
       \/ /\ ~limit_ambiguous(limit_kmph, limit_pace)
          /\ limit' = IF limit_kmph # None THEN Kmph(limit_kmph[1])
                      ELSE SecPer500m(limit_pace[1])
          /\ pc' = "read"
          /\ UNCHANGED stdout
    /\ UNCHANGED <<limit_kmph, limit_pace, min_interval_duration, input, records,
                   start_index, results, found, calls, intervals, rhs, ordering>>

\* main: the file is read, a trailing activityType = -1 row dropped, and the
\* rows converted.
ReadRecords ==
    /\ pc = "read"
    /\ LET raw == IF input # <<>> /\ input[Len(input)].activityType = -1
                  THEN SubSeq(input, 1, Len(input) - 1)
                  ELSE input
       IN  records' = [k \in 1..Len(raw) |->
                          Record(raw[k].time, Ms(ParseDec(raw[k].speed)))]
    /\ pc' = "find_all_intervals"
    /\ UNCHANGED <<limit_kmph, limit_pace, min_interval_duration, input, limit,
                   start_index, results, found, calls, intervals, stdout, rhs, ordering>>

\* find_all_intervals: entry.
find_all_intervals_enter ==
    /\ pc = "find_all_intervals"
    /\ results' = <<>>
    /\ start_index' = 0
    /\ pc' = "loop"
    /\ UNCHANGED <<limit_kmph, limit_pace, min_interval_duration, input, records, limit,
                   found, calls, intervals, stdout, rhs, ordering>>

\* A faulty loop: the scan restarts one sample after the range's start.
find_all_intervals_loop_restart_after_start ==
    /\ pc = "loop"
    /\ LET r == find_interval(records, start_index, limit)
       IN  /\ found' = r
           /\ calls' = Append(calls, start_index)
           /\ IF r # None
              THEN /\ start_index' = r[1].start + 1
                   /\ results' = Append(results, r[1])
                   /\ pc' = "loop"
              ELSE /\ pc' = "filter"
                   /\ UNCHANGED <<start_index, results>>
    /\ UNCHANGED <<limit_kmph, limit_pace, min_interval_duration, input, records, limit,
                   intervals, stdout, rhs, ordering>>

\* A faulty loop: the scan restarts at the range's last sample.
find_all_intervals_loop_restart_inside ==
    /\ pc = "loop"
    /\ LET r == find_interval(records, start_index, limit)
       IN  /\ found' = r
           /\ calls' = Append(calls, start_index)
           /\ IF r # None
              THEN /\ start_index' = r[1].end - 1
                   /\ results' = Append(results, r[1])
                   /\ pc' = "loop"
              ELSE /\ pc' = "filter"
                   /\ UNCHANGED <<start_index, results>>
    /\ UNCHANGED <<limit_kmph, limit_pace, min_interval_duration, input, records, limit,
                   intervals, stdout, rhs, ordering>>

\* find_all_intervals: one turn of the loop.
find_all_intervals_loop ==
    /\ pc = "loop"
    /\ LET r == find_interval(records, start_index, limit)
       IN  /\ found' = r
           /\ calls' = Append(calls, start_index)
           /\ IF r # None
              THEN /\ start_index' = r[1].end
                   /\ results' = Append(results, r[1])
                   /\ pc' = "loop"
              ELSE /\ pc' = "filter"
                   /\ UNCHANGED <<start_index, results>>
    /\ UNCHANGED <<limit_kmph, limit_pace, min_interval_duration, input, records, limit,
                   intervals, stdout, rhs, ordering>>

\* main: the ranges filtered by duration and mapped to IntervalInfo.
FilterMap ==
    /\ pc = "filter"
    /\ IF panics(records, results)
       THEN pc' = "panic" /\ UNCHANGED intervals
       ELSE /\ intervals' = filter_map(records, results, min_interval_duration)
            /\ pc' = "write"
    /\ UNCHANGED <<limit_kmph, limit_pace, min_interval_duration, input, records, limit,
                   start_index, results, found, calls, stdout, rhs, ordering>>

\* main: the rows written, the header before the first.
WriteRows ==
    /\ pc = "write"
    /\ stdout' = IF intervals = <<>> THEN stdout
                 ELSE stdout \o <<HeaderLine>> \o intervals
    /\ pc' = "done"
    /\ UNCHANGED <<limit_kmph, limit_pace, min_interval_duration, input, records, limit,
                   start_index, results, found, calls, intervals, rhs, ordering>>

TestFindInterval ==
    /\ pc = "test_find_interval"
    /\ found' = find_interval(records, start_index, limit)
    /\ calls' = Append(calls, start_index)
    /\ pc' = "returned"
    /\ UNCHANGED <<limit_kmph, limit_pace, min_interval_duration, input, records, limit,
                   start_index, results, intervals, stdout, rhs, ordering>>

TestPartialCmp ==
    /\ pc = "test_partial_cmp"
    /\ ordering' = partial_cmp(limit, rhs)
    /\ pc' = "compared"
    /\ UNCHANGED <<limit_kmph, limit_pace, min_interval_duration, input, records, limit,
                   start_index, results, found, calls, intervals, stdout, rhs>>

Next ==
    \/ ChooseLimit
    \/ ReadRecords
    \/ find_all_intervals_enter
    \/ find_all_intervals_loop
    \/ FilterMap
    \/ WriteRows
    \/ TestFindInterval
    \/ TestPartialCmp

Spec == Init /\ [][Next]_vars

-----------------------------------------------------------------------------
(* The vocabulary of the properties. *)

MainPcs == {"main", "exit", "read", "find_all_intervals", "loop", "filter", "write",
            "done", "panic"}

\* A find_interval call has returned: found is its value and LastCall its
\* start_index argument.
Returned == calls # <<>>
LastCall == calls[Len(calls)]

\* The instantaneous speed of sample i is >= limit.
Qualifies(i) == ge(At(records, i).speed, limit)

\* The running sum of the speeds of samples i..=j, in meters per second.
RECURSIVE RunningSum(_, _)
RunningSum(i, j) ==
    IF j < i THEN 0 ELSE FAdd(RunningSum(i, j - 1), to_ms(At(records, j).speed))

RunningAverage(i, j) == FDiv(RunningSum(i, j), FromInt(j - i + 1))

AverageBelow(i, j) == lt(Ms(RunningAverage(i, j)), limit)
AverageAtLeast(i, j) == ge(Ms(RunningAverage(i, j)), limit)

\* i is the smallest index >= from whose instantaneous speed is >= limit.
FirstCrossing(from, i) ==
    /\ i \in from..(Len(records) - 1)
    /\ Qualifies(i)
    /\ \A h \in from..(i - 1) : ~Qualifies(h)

SampleIndexes(range) == range.start..(range.end - 1)

-----------------------------------------------------------------------------
(* C1: when find_interval returns a range it is [i, j): i the smallest index *)
(* >= start_index whose speed is >= limit, j the smallest index >= i at      *)
(* which the running average of samples i..=j is < limit; and the two        *)
(* queries of test_find_interval give [1, 4) and [3, 4).                     *)

C1_RangeIsCrossingToFirstDrop ==
    /\ (Returned /\ found # None) =>
           /\ FirstCrossing(LastCall, found[1].start)
           /\ found[1].end \in found[1].start..(Len(records) - 1)
           /\ AverageBelow(found[1].start, found[1].end)
           /\ \A j \in found[1].start..(found[1].end - 1) :
                  ~AverageBelow(found[1].start, j)
    /\ (pc = "returned" /\ records = TestRecords /\ LastCall = 0) =>
           /\ limit = Ms(ParseDec(<<19, 10>>)) => found = Some(Range(1, 4))
           /\ limit = Ms(ParseDec(<<21, 10>>)) => found = Some(Range(3, 4))

C1_Witness ==
    /\ pc = "returned"
    /\ records = TestRecords
    /\ limit = Ms(ParseDec(<<19, 10>>))
    /\ calls = <<0>>
    /\ found = Some(Range(1, 4))

(* C2: every range of find_all_intervals' result ends at or before the     *)
(* length of the samples, no sample index belongs to two ranges, and the   *)
(* ranges come in non-decreasing start order.                              *)

C2_RangesBoundedDisjointOrdered ==
    /\ \A k \in 1..Len(results) : results[k].end <= Len(records)
    /\ \A k, m \in 1..Len(results) :
           k # m => SampleIndexes(results[k]) \cap SampleIndexes(results[m]) = {}
    /\ \A k \in 1..(Len(results) - 1) : results[k].start <= results[k + 1].start

C2_Witness == pc = "filter" /\ Len(results) >= 2

(* C3: find_interval returns no interval exactly when no sample at or      *)
(* after start_index has speed >= limit, or the running average from the   *)
(* first such sample stays >= limit up to the last sample.                 *)

C3_NoneIffNoCrossingOrNoDrop ==
    Returned =>
        (found = None <=>
            \/ \A i \in LastCall..(Len(records) - 1) : ~Qualifies(i)
            \/ \E i \in LastCall..(Len(records) - 1) :
                   /\ FirstCrossing(LastCall, i)
                   /\ \A j \in i..(Len(records) - 1) : AverageAtLeast(i, j))

\* The crossing is at the very last sample, and is discarded.
C3_Witness ==
    /\ pc = "returned"
    /\ Len(records) >= 2
    /\ FirstCrossing(LastCall, Len(records) - 1)
    /\ found = None

(* C4, as stated: the running average from start through the last included *)
(* sample, end - 1, of a returned range is never >= limit.                 *)

C4_LastIncludedAverageBelowLimit ==
    (Returned /\ found # None) =>
        ~AverageAtLeast(found[1].start, found[1].end - 1)

(* C4, amended: the running average through the last included sample is   *)
(* >= limit; it is the average through the excluded sample end that is     *)
(* < limit.                                                                *)

C4_LastIncludedAverageAtLeastLimit ==
    (Returned /\ found # None) =>
        /\ found[1].start <= found[1].end - 1
        /\ AverageAtLeast(found[1].start, found[1].end - 1)
        /\ AverageBelow(found[1].start, found[1].end)

C4_Witness ==
    /\ pc = "returned"
    /\ found # None
    /\ found[1].end - found[1].start >= 2

\* The ranges that last at least min_interval_duration.
Kept ==
    {k \in 1..Len(results) :
        At(records, results[k].end - 1).time_in_seconds
            - At(records, results[k].start).time_in_seconds >= min_interval_duration}

\* The n-th kept range, in the order of the ranges.
NthKept(n) == CHOOSE k \in Kept : Cardinality({h \in Kept : h <= k}) = n

(* C5: the reported intervals are exactly the ranges whose duration        *)
(* time[end-1] - time[start] is >= min_interval_duration, in the order of  *)
(* the ranges, each with start_time = time[start] and that duration.       *)

C5_ReportedAreRangesOfMinDuration ==
    /\ pc \in {"write", "done"} =>
           /\ Len(intervals) = Cardinality(Kept)
           /\ \A n \in 1..Len(intervals) :
                  LET range == results[NthKept(n)]
                  IN  /\ intervals[n].start_time = At(records, range.start).time_in_seconds
                      /\ intervals[n].duration =
                             At(records, range.end - 1).time_in_seconds
                                 - At(records, range.start).time_in_seconds
    /\ pc = "done" =>
           /\ Len(stdout) = IF intervals = <<>> THEN 0 ELSE Len(intervals) + 1
           /\ \A n \in 1..Len(intervals) : stdout[n + 1] = intervals[n]

\* One range is kept and one discarded.
C5_Witness ==
    /\ pc = "done"
    /\ Len(results) >= 2
    /\ Len(intervals) >= 1
    /\ Len(intervals) < Len(results)

\* The meters-per-second normalization: k / 3.6 for Kmph(k), m for Ms(m),
\* 500 / p for SecPer500m(p).
Normalized(speed) ==
    IF speed.unit = "Kmph" THEN FDiv(speed.v, ParseDec(<<36, 10>>))
    ELSE IF speed.unit = "SecPer500m" THEN FDiv(ParseDec(<<500, 1>>), speed.v)
    ELSE speed.v

BothPaces == limit.unit = "SecPer500m" /\ rhs.unit = "SecPer500m"

\* Speed values of any units are ordered by their normalization, and the
\* order is total.
OrderedByNormalization ==
    pc = "compared" =>
        /\ ordering \in {Some("Less"), Some("Equal"), Some("Greater")}
        /\ ordering = Some("Less") <=> Normalized(limit) < Normalized(rhs)
        /\ ordering = Some("Equal") <=> Normalized(limit) = Normalized(rhs)
        /\ ordering = Some("Greater") <=> Normalized(limit) > Normalized(rhs)
        /\ ge(limit, rhs) <=> Normalized(limit) >= Normalized(rhs)

(* C6, as stated: Speed values of any units are ordered by their           *)
(* meters-per-second normalization, the order is total, and of two paces   *)
(* p1 < p2, SecPer500m(p1) compares strictly greater than SecPer500m(p2).  *)

C6_SmallerPaceStrictlyGreater ==
    /\ OrderedByNormalization
    /\ (pc = "compared" /\ BothPaces /\ limit.v < rhs.v) => ordering = Some("Greater")

(* C6, amended: Speed values of any units are ordered by their             *)
(* meters-per-second normalization, the order is total, and of two paces   *)
(* p1 < p2, SecPer500m(p1) never compares less than SecPer500m(p2); it     *)
(* compares equal when 500 / p1 and 500 / p2 round to the same f64.        *)

C6_SmallerPaceNotLess ==
    /\ OrderedByNormalization
    /\ (pc = "compared" /\ BothPaces /\ limit.v < rhs.v) =>
           /\ ordering \in {Some("Greater"), Some("Equal")}
           /\ ordering = Some("Equal") <=> Normalized(limit) = Normalized(rhs)

\* Two different paces that compare equal.
C6_Witness ==
    /\ pc = "compared"
    /\ BothPaces
    /\ limit.v < rhs.v
    /\ ordering = Some("Equal")

BothOrNeither == (limit_kmph = None) <=> (limit_pace = None)

(* C7: started with both thresholds or with neither, main reports the      *)
(* configuration error and exits before reading the input, scanning or     *)
(* writing a row; started with exactly one, the scan's limit is that value *)
(* in its own unit and no error is reported.                               *)

C7_AmbiguousLimitIsAnError ==
    pc \in MainPcs =>
        /\ BothOrNeither =>
               /\ pc \in {"main", "exit"}
               /\ pc = "exit" => stdout = <<ErrorLine>>
               /\ records = <<>> /\ calls = <<>> /\ results = <<>> /\ intervals = <<>>
               /\ limit = Unset
        /\ (~BothOrNeither /\ pc # "main") =>
               /\ pc # "exit"
               /\ \A n \in 1..Len(stdout) : stdout[n] # ErrorLine
               /\ limit_kmph # None => limit = Kmph(limit_kmph[1])
               /\ limit_pace # None => limit = SecPer500m(limit_pace[1])

\* Both thresholds were given.
C7_Witness ==
    /\ pc = "exit"
    /\ limit_kmph # None
    /\ limit_pace # None
    /\ stdout = <<ErrorLine>>

\* The calls find_all_intervals has made, and what they returned.
C8_Calls ==
    pc \in MainPcs =>
        /\ calls # <<>> => calls[1] = 0
        /\ \A k \in 2..Len(calls) : calls[k] = results[k - 1].end
        /\ Len(calls) <= Len(records) + 1
        /\ \A k \in 1..Len(results) :
               find_interval(records, calls[k], limit) = Some(results[k])
        /\ pc = "loop" => Len(calls) = Len(results)
        /\ pc \in {"filter", "write", "done"} =>
               /\ Len(calls) = Len(results) + 1
               /\ found = None
               /\ find_interval(records, LastCall, limit) = None

\* A bound on the steps left before the program has returned.
StepsLeft ==
    CASE pc = "main" -> Len(input) + 7
      [] pc = "read" -> Len(input) + 6
      [] pc = "find_all_intervals" -> Len(records) + 5
      [] pc = "loop" -> (Len(records) + 1 - Len(calls)) + 3
      [] pc = "filter" -> 2
      [] pc \in {"write", "test_find_interval", "test_partial_cmp"} -> 1
      [] OTHER -> 0

(* C8: find_all_intervals calls find_interval first with start_index 0 and *)
(* then with the end of the range just returned, stops at the first call   *)
(* that returns no interval, returns the ranges collected so far, and      *)
(* makes at most length + 1 calls; every step brings the return nearer.    *)

C8_TerminatesAfterBoundedCalls ==
    /\ []C8_Calls
    /\ [][StepsLeft' < StepsLeft /\ StepsLeft' >= 0]_vars

\* Two ranges were found and the third call ended the loop.
C8_Witness == pc = "filter" /\ Len(calls) = 3 /\ Len(results) = 2

(* C9: every range find_interval returns is non-empty and in bounds,       *)
(* start_index <= start < end < length, so the filter's index end - 1      *)
(* exists and is >= start.                                                 *)

C9_RangeNonEmptyInBounds ==
    /\ (Returned /\ found # None) =>
           /\ LastCall <= found[1].start
           /\ found[1].start < found[1].end
           /\ found[1].end < Len(records)
    /\ \A k \in 1..Len(results) :
           /\ calls[k] <= results[k].start
           /\ results[k].start < results[k].end
           /\ results[k].end < Len(records)
    /\ pc # "panic"

C9_Witness == pc = "write" /\ Len(results) >= 1 /\ start_index = Len(records) - 1

\* The samples between consecutive ranges have speed below limit.
GapBelowLimit ==
    \A k \in 1..(Len(results) - 1) :
        \A i \in results[k].end..(results[k + 1].start - 1) : ~Qualifies(i)

(* C10, as stated: the sample at index end of a returned range has speed   *)
(* strictly below limit, so consecutive ranges of the result are never     *)
(* adjacent, and the samples between them have speed below limit.          *)

C10_EndSampleBelowLimit ==
    /\ (Returned /\ found # None) => lt(At(records, found[1].end).speed, limit)
    /\ \A k \in 1..(Len(results) - 1) : results[k + 1].start > results[k].end
    /\ GapBelowLimit

(* C10, amended: it is the running average through index end that is      *)
(* strictly below limit; consecutive ranges may be adjacent, next.start >= *)
(* previous.end, and the samples between them have speed below limit.      *)

C10_EndAverageBelowLimit ==
    /\ (Returned /\ found # None) => AverageBelow(found[1].start, found[1].end)
    /\ \A k \in 1..(Len(results) - 1) : results[k + 1].start >= results[k].end
    /\ GapBelowLimit

\* Two adjacent ranges: the sample that ended the first starts the second.
C10_Witness ==
    /\ pc = "filter"
    /\ \E k \in 1..(Len(results) - 1) :
           /\ results[k + 1].start = results[k].end
           /\ Qualifies(results[k].end)

====
